---- MODULE Spec2Model ----
(***************************************************************************)
(* Purchase handlers of the usanumbers backend (Express + Firestore).      *)
(*                                                                         *)
(* The repository holds three variants of the same API:                    *)
(*   "tx"  src/api/index.js 1-813      buy / bulk-buy inside               *)
(*                                     db.runTransaction                   *)
(*   "tok" src/api/index.js 815-2084   token-verified, plain get()/update()*)
(*                                     and db.batch()                      *)
(*   "p0"  src/unnamed/part_000        as "tok" without the token check    *)
(* One variant is deployed at a time (variable deployment).  Requests run  *)
(* concurrently; every store read or write of a handler is one step, and   *)
(* the steps of different requests interleave freely.                      *)
(*                                                                         *)
(* Money is counted in tenths of a credit (0.30 is 3, 1.00 is 10); the     *)
(* per-item price of a bulk purchase, totalPrice / quantity, is kept as    *)
(* the pair [num, den].  The fields apiUrl, type and the e-mail addresses   *)
(* are copied by the handlers exactly as phoneNumber is and are left out   *)
(* of the records.  The timestamps (soldAt, purchasedAt, timestamp) are    *)
(* left out too: two snapshots that differ in purchasedAt only are one     *)
(* value here.                                                             *)
(***************************************************************************)
EXTENDS Integers, Sequences, FiniteSets, TLC

\* ------------------------------------------------------------------ bounds
NumReq == 2          \* requests that may be in flight in one behaviour
MaxBatch == 2        \* longest `numbers` array of a bulk-buy request

\* --------------------------------------------------------------- constants
DefaultPrice == 3    \* price || numberData.price || 0.30

\* ------------------------------------------------------------------ inputs
Requests == 1..NumReq
Missing == ""                              \* an absent (falsy) body field
Users == {"u1", "u2"}                      \* user documents of the store
UserIds == Users \cup {"ux"}               \* "ux" names no document
NumberIds == {"n1", "n2", "n0"}            \* "n0" names no document
UserIdInputs == UserIds \cup {Missing}
NumberIdInputs == NumberIds \cup {Missing}
PriceInputs == {0, 2}                      \* 0: no price in the body
SignedPriceInputs == PriceInputs \cup {0 - 1}   \* and a price below zero
TotalPriceInputs == {0, 4}
QuantityInputs == {0, 2}
TokenInputs == Users \cup {Missing}        \* uid of the verified Bearer token
AdminIdInputs == {"adm", "u2", Missing}    \* "adm" alone has role 'admin'
CreditInputs == {0 - 1, 0, 1}              \* amount of an add-credit request
\* the phone numbers a delete request names: `phoneNumber` (at most one) in
\* the first variant, the array `numbers` in the other two; <<>> is none
DeleteInputs == {<<>>, <<"p1">>, <<"p2">>, <<"p1", "p2">>}
\* a ref of a bulk request: {id, phoneNumber} as sent by the client
BulkRefs ==
  { [id |-> "n1", phoneNumber |-> "p1"],
    [id |-> "n2", phoneNumber |-> "p2"],
    [id |-> "n0", phoneNumber |-> "p0"] }
\* the `numbers` arrays of a bulk request: no ref twice, MaxBatch at most
BulkLists ==
  { refs \in UNION { [1..k -> BulkRefs] : k \in 0..MaxBatch } :
      \A i, j \in 1..Len(refs) : i # j => refs[i] # refs[j] }

VARIABLES deployment, numbers, users, transactions, req

vars == <<deployment, numbers, users, transactions, req>>
store == <<numbers, users, transactions>>

\* ---------------------------------------------------------------- records
NoNumber == [exists |-> FALSE, phoneNumber |-> "", price |-> 0,
             status |-> "", soldTo |-> ""]
NoUser == [exists |-> FALSE, credits |-> 0, purchasedNumbers |-> <<>>,
           purchasedNumbersData |-> <<>>, role |-> ""]
NoResp == [status |-> 0, success |-> FALSE, message |-> "",
           newBalance |-> 0, purchasedCount |-> 0]
Idle == [pc |-> "idle", kind |-> "", adminId |-> "", token |-> "",
         userId |-> "", numberId |-> "",
         refs |-> <<>>, price |-> 0, quantity |-> 0, amount |-> 0,
         attempt |-> 0, items |-> <<>>, batch |-> <<>>,
         numberData |-> NoNumber, userData |-> NoUser, resp |-> NoResp]

formatResponse(status, success, message, newBalance, purchasedCount) ==
  [status |-> status, success |-> success, message |-> message,
   newBalance |-> newBalance, purchasedCount |-> purchasedCount]

\* ---------------------------------------------------------- pure helpers
RECURSIVE arrayUnion(_, _)
\* FieldValue.arrayUnion: each element not yet in the array is appended
arrayUnion(arr, elems) ==
  IF elems = <<>> THEN arr
  ELSE arrayUnion(
         IF \E i \in 1..Len(arr) : arr[i] = Head(elems)
           THEN arr ELSE Append(arr, Head(elems)),
         Tail(elems))

\* const numberPrice = price || numberData.price || 0.30
NumberPrice(price, stored) ==
  IF price # 0 THEN price ELSE IF stored # 0 THEN stored ELSE DefaultPrice

InsufficientWhenEmpty(credits, price) == credits <= 0
\* (userData.credits || 0) < numberPrice
Insufficient(credits, price) == credits < price

\* the snapshot a single purchase appends (completeNumberData)
completeNumberData(numberData, numberId, numberPrice) ==
  [phoneNumber |-> numberData.phoneNumber, originalId |-> numberId,
   purchaseType |-> "single", price |-> [num |-> numberPrice, den |-> 1]]

\* the snapshots a bulk purchase appends (numbers.map(...))
purchasedNumbersData(refs, totalPrice, quantity) ==
  [i \in 1..Len(refs) |->
     [phoneNumber |-> refs[i].phoneNumber, originalId |-> refs[i].id,
      purchaseType |-> "bulk",
      price |-> [num |-> totalPrice, den |-> quantity]]]

phoneNumbersList(refs) == [i \in 1..Len(refs) |-> refs[i].phoneNumber]

SoldNumberKeepsOwner(doc, userId) == [doc EXCEPT !.status = "sold"]
\* update(numberRef, {status: 'sold', soldTo: userId, ...})
SoldNumber(doc, userId) ==
  [doc EXCEPT !.status = "sold", !.soldTo = userId]

\* update(userRef, {credits: increment(-amount), purchasedNumbers:
\* arrayUnion(...), purchasedNumbersData: arrayUnion(...)})
UserAfterPurchase(doc, amount, phones, snaps) ==
  [doc EXCEPT !.credits = @ - amount,
              !.purchasedNumbers = arrayUnion(@, phones),
              !.purchasedNumbersData = arrayUnion(@, snaps)]

\* if (!numberDoc.exists) ...; if (numberData.status !== 'available') ...
NumberCheck(numberDoc) ==
  IF ~numberDoc.exists THEN "Number not found"
  ELSE IF numberDoc.status # "available" THEN "Number is not available"
  ELSE "ok"

\* if (!userDoc.exists) ...; if ((userData.credits || 0) < amount) ...
CreditCheck(userDoc, amount) ==
  IF ~userDoc.exists THEN "User not found"
  ELSE IF Insufficient(userDoc.credits, amount) THEN "Insufficient credits"
  ELSE "ok"

\* the checks of the single purchase, in the order the handler makes them
BuyCheck(numberDoc, userDoc, price) ==
  IF NumberCheck(numberDoc) # "ok" THEN NumberCheck(numberDoc)
  ELSE CreditCheck(userDoc, NumberPrice(price, numberDoc.price))

\* the checks of the bulk purchase: the user only, never the Numbers
BulkCheck(userDoc, totalPrice) == CreditCheck(userDoc, totalPrice)

\* the Transaction document a purchase writes
TransactionRecord(userId, type, amount, phones, snaps) ==
  [userId |-> userId, type |-> type, amount |-> amount, numbers |-> phones,
   numbersData |-> snaps, status |-> "completed"]

\* ------------------------------------------------------------------- init
\* two Numbers uploaded by the admin; n2 holds no price of its own (the
\* admin's numbers/update writes any fields it is sent)
InitialNumbers ==
  [n \in NumberIds |->
     IF n = "n1" THEN [exists |-> TRUE, phoneNumber |-> "p1", price |-> 3,
                       status |-> "available", soldTo |-> ""]
     ELSE IF n = "n2" THEN [exists |-> TRUE, phoneNumber |-> "p2",
                       price |-> 0, status |-> "available", soldTo |-> ""]
     ELSE NoNumber]

\* two users after signup and admin top-ups: u1 holds 0.50, u2 holds 0.20
InitialUsers ==
  [u \in UserIds |->
     IF u = "u1" THEN [exists |-> TRUE, credits |-> 5,
                       purchasedNumbers |-> <<>>,
                       purchasedNumbersData |-> <<>>, role |-> "user"]
     ELSE IF u = "u2" THEN [exists |-> TRUE, credits |-> 2,
                       purchasedNumbers |-> <<>>,
                       purchasedNumbersData |-> <<>>, role |-> "user"]
     ELSE NoUser]

Init ==
  /\ deployment \in {"tx", "tok", "p0"}
  /\ numbers = InitialNumbers
  /\ users = InitialUsers
  /\ transactions = <<>>
  /\ req = [r \in Requests |-> Idle]

\* requests are numbered in their order of arrival
Arrives(r) ==
  /\ req[r].pc = "idle"
  /\ \A s \in Requests : s < r => req[s].pc # "idle"

\* ------------------------------------------------- responses of a handler
\* return res.status(status).json(formatResponse(false, null, message))
Reject(r, kind, userId, attempt, status, message) ==
  req' = [req EXCEPT ![r] =
    [Idle EXCEPT !.pc = "done", !.kind = kind, !.userId = userId,
                 !.token = req[r].token, !.attempt = attempt,
                 !.resp = formatResponse(status, FALSE, message, 0, 0)]]

\* the same answer given in the step the request arrives in, after the
\* token and the body were accepted and a first document was read
RejectAfterRead(r, kind, token, userId, status, message) ==
  req' = [req EXCEPT ![r] =
    [Idle EXCEPT !.pc = "done", !.kind = kind, !.userId = userId,
                 !.token = token,
                 !.resp = formatResponse(status, FALSE, message, 0, 0)]]

\* return res.json(formatResponse(true, {newBalance, ...}, '... successful'))
Succeed(r, message, newBalance, purchasedCount) ==
  req' = [req EXCEPT ![r] =
    [Idle EXCEPT !.pc = "done", !.kind = req[r].kind,
                 !.adminId = req[r].adminId, !.token = req[r].token,
                 !.userId = req[r].userId, !.numberId = req[r].numberId,
                 !.amount = req[r].amount, !.attempt = req[r].attempt,
                 !.resp = formatResponse(200, TRUE, message, newBalance,
                                         purchasedCount)]]

BulkSoldFirstOnly(refs, userId) ==
  [n \in NumberIds |->
     IF refs # <<>> /\ refs[1].id = n
       THEN SoldNumber(numbers[n], userId) ELSE numbers[n]]
\* the Numbers of the store after every ref of a bulk purchase is marked sold
BulkSold(refs, userId) ==
  [n \in NumberIds |->
     IF \E i \in 1..Len(refs) : refs[i].id = n
       THEN SoldNumber(numbers[n], userId) ELSE numbers[n]]

\* a batch or transaction that updates a missing document is rejected whole
RefsExist(refs) == \A i \in 1..Len(refs) : numbers[refs[i].id].exists

\* ------------------------------------- "tx": handlers in db.runTransaction
\* runTransaction commits an attempt only if the documents it read are
\* unchanged; otherwise it runs the update function again.  (The SDK stops
\* after 5 attempts; an attempt is lost only to another request's commit,
\* so fewer than NumReq attempts are ever lost here.)
TxConflictNever(r) == FALSE
TxConflict(r) ==
  \/ req[r].kind = "buy" /\ numbers[req[r].numberId] # req[r].numberData
  \/ users[req[r].userId] # req[r].userData

\* one run of the update function of the buy transaction: reads and checks
TxBuyAttempt(r, userId, numberId, price, attempt) ==
  LET msg == BuyCheck(numbers[numberId], users[userId], price) IN
  IF msg # "ok"
  THEN Reject(r, "buy", userId, attempt, 500, msg)
  ELSE req' = [req EXCEPT ![r] =
         [Idle EXCEPT !.pc = "commit", !.kind = "buy", !.userId = userId,
                      !.numberId = numberId, !.price = price,
                      !.amount = NumberPrice(price, numbers[numberId].price),
                      !.attempt = attempt,
                      !.numberData = numbers[numberId],
                      !.userData = users[userId]]]

\* the handler from the request to the end of the first attempt, the price
\* of the body drawn from `prices`
TxBuyRequest(r, prices) ==
  /\ deployment = "tx"
  /\ Arrives(r)
  /\ \E userId \in UserIdInputs, numberId \in NumberIdInputs,
        price \in prices :
       IF userId = Missing \/ numberId = Missing
       THEN Reject(r, "buy", userId, 0, 400,
                   "Missing required fields")
       ELSE TxBuyAttempt(r, userId, numberId, price, 0)
  /\ UNCHANGED <<deployment, numbers, users, transactions>>

TxBuyStart(r) == TxBuyRequest(r, PriceInputs)

TxBuyCommit(r) ==
  LET q == req[r]
      snap == completeNumberData(q.numberData, q.numberId, q.amount) IN
  /\ q.pc = "commit" /\ q.kind = "buy"
  /\ ~TxConflict(r)
  /\ numbers' = [numbers EXCEPT ![q.numberId] = SoldNumber(@, q.userId)]
  /\ users' = [users EXCEPT ![q.userId] =
       UserAfterPurchase(@, q.amount, <<q.numberData.phoneNumber>>, <<snap>>)]
  /\ transactions' = Append(transactions,
       TransactionRecord(q.userId, "single_purchase", q.amount,
                         <<q.numberData.phoneNumber>>, <<snap>>))
  /\ Succeed(r, "Purchase successful", q.userData.credits - q.amount, 0)
  /\ UNCHANGED deployment

TxBuyRetryStale(r) ==
  /\ req[r].pc = "commit" /\ req[r].kind = "buy"
  /\ TxConflict(r)
  /\ UNCHANGED vars

TxBuyRetry(r) ==
  /\ req[r].pc = "commit" /\ req[r].kind = "buy"
  /\ TxConflict(r)
  /\ TxBuyAttempt(r, req[r].userId, req[r].numberId, req[r].price,
                  req[r].attempt + 1)
  /\ UNCHANGED <<deployment, numbers, users, transactions>>

\* one run of the update function of the bulk transaction
TxBulkAttempt(r, userId, quantity, totalPrice, refs, attempt) ==
  LET msg == BulkCheck(users[userId], totalPrice) IN
  IF msg # "ok"
  THEN Reject(r, "bulk", userId, attempt, 500, msg)
  ELSE req' = [req EXCEPT ![r] =
         [Idle EXCEPT !.pc = "commit", !.kind = "bulk", !.userId = userId,
                      !.refs = refs, !.price = totalPrice,
                      !.quantity = quantity, !.amount = totalPrice,
                      !.attempt = attempt, !.userData = users[userId]]]

\* the handler from the request to the end of the first attempt, the
\* `numbers` array of the body drawn from `lists`
TxBulkRequest(r, lists) ==
  /\ deployment = "tx"
  /\ Arrives(r)
  /\ \E userId \in UserIdInputs, quantity \in QuantityInputs,
        totalPrice \in TotalPriceInputs, refs \in lists :
       IF userId = Missing \/ quantity = 0 \/ totalPrice = 0 \/ Len(refs) = 0
       THEN Reject(r, "bulk", userId, 0, 400, "Missing required fields")
       ELSE TxBulkAttempt(r, userId, quantity, totalPrice, refs, 0)
  /\ UNCHANGED <<deployment, numbers, users, transactions>>

TxBulkStart(r) == TxBulkRequest(r, BulkLists)

TxBulkCommit(r) ==
  LET q == req[r]
      snaps == purchasedNumbersData(q.refs, q.amount, q.quantity) IN
  /\ q.pc = "commit" /\ q.kind = "bulk"
  /\ ~TxConflict(r)
  /\ IF RefsExist(q.refs)
     THEN /\ numbers' = BulkSold(q.refs, q.userId)
          /\ users' = [users EXCEPT ![q.userId] =
               UserAfterPurchase(@, q.amount, phoneNumbersList(q.refs), snaps)]
          /\ transactions' = Append(transactions,
               TransactionRecord(q.userId, "bulk_purchase", q.amount,
                                 phoneNumbersList(q.refs), snaps))
          /\ Succeed(r, "Bulk purchase successful",
                     q.userData.credits - q.amount, Len(q.refs))
     ELSE /\ Reject(r, "bulk", q.userId, q.attempt, 500,
                    "No document to update")
          /\ UNCHANGED <<numbers, users, transactions>>
  /\ UNCHANGED deployment

TxBulkRetry(r) ==
  /\ req[r].pc = "commit" /\ req[r].kind = "bulk"
  /\ TxConflict(r)
  /\ TxBulkAttempt(r, req[r].userId, req[r].quantity, req[r].price,
                   req[r].refs, req[r].attempt + 1)
  /\ UNCHANGED <<deployment, numbers, users, transactions>>

TxNext ==
  \E r \in Requests :
    \/ TxBuyStart(r) \/ TxBuyCommit(r) \/ TxBuyRetry(r)
    \/ TxBulkStart(r) \/ TxBulkCommit(r) \/ TxBulkRetry(r)

\* --------------------- "tok" and "p0": plain get() / update() / db.batch()
\* what the handler answers before its first store read: verifyToken (401),
\* the required fields (400), the uid of the token against userId (403)
PrecheckWithoutUidCheck(token, userId, missing) ==
  IF deployment = "tok" /\ token = Missing
    THEN [status |-> 401, message |-> "No token provided"]
  ELSE IF missing
    THEN [status |-> 400, message |-> "Missing required fields"]
  ELSE [status |-> 0, message |-> "ok"]

Precheck(token, userId, missing) ==
  IF deployment = "tok" /\ token = Missing
    THEN [status |-> 401, message |-> "No token provided"]
  ELSE IF missing
    THEN [status |-> 400, message |-> "Missing required fields"]
  ELSE IF deployment = "tok" /\ token # userId
    THEN [status |-> 403, message |-> "Unauthorized"]
  ELSE [status |-> 0, message |-> "ok"]

\* the tokens a request can carry: the part_000 routes read none
Tokens == IF deployment = "tok" THEN TokenInputs ELSE {Missing}

\* the status code the plain handlers give each failed check
StatusOf(message) ==
  IF message \in {"Number not found", "User not found"} THEN 404 ELSE 400

\* the fields of userDoc.data() the plain handlers use afterwards
UserDataRead(userDoc) == [NoUser EXCEPT !.exists = TRUE,
                                        !.credits = userDoc.credits]

\* start of the handler up to and including `await numberRef.get()`
NTBuyRequest(r, prices) ==
  /\ deployment \in {"tok", "p0"}
  /\ Arrives(r)
  /\ \E token \in Tokens, userId \in UserIdInputs,
        numberId \in NumberIdInputs, price \in prices :
       LET pre == Precheck(token, userId,
                           userId = Missing \/ numberId = Missing) IN
       IF pre.status # 0
       THEN Reject(r, "buy", userId, 0, pre.status, pre.message)
       ELSE IF NumberCheck(numbers[numberId]) # "ok"
       THEN RejectAfterRead(r, "buy", token, userId,
                            StatusOf(NumberCheck(numbers[numberId])),
                            NumberCheck(numbers[numberId]))
       ELSE req' = [req EXCEPT ![r] =
              [Idle EXCEPT !.pc = "getUser", !.kind = "buy",
                           !.token = token,
                           !.userId = userId, !.numberId = numberId,
                           !.price = price,
                           !.numberData = numbers[numberId]]]
  /\ UNCHANGED <<deployment, numbers, users, transactions>>

NTBuyStart(r) == NTBuyRequest(r, PriceInputs)

NTBuyGetUserSellsFirst(r) ==
  LET q == req[r]
      amount == NumberPrice(q.price, q.numberData.price)
      msg == CreditCheck(users[q.userId], amount) IN
  /\ q.pc = "getUser" /\ q.kind = "buy"
  /\ numbers' = [numbers EXCEPT ![q.numberId] = SoldNumber(@, q.userId)]
  /\ IF msg # "ok"
     THEN Reject(r, "buy", q.userId, 0, StatusOf(msg), msg)
     ELSE req' = [req EXCEPT ![r] =
            [q EXCEPT !.pc = "updUser", !.amount = amount,
                      !.userData = UserDataRead(users[q.userId])]]
  /\ UNCHANGED <<deployment, users, transactions>>

\* `await userRef.get()` and the checks on the user
NTBuyGetUser(r) ==
  LET q == req[r]
      amount == NumberPrice(q.price, q.numberData.price)
      msg == CreditCheck(users[q.userId], amount) IN
  /\ q.pc = "getUser" /\ q.kind = "buy"
  /\ IF msg # "ok"
     THEN Reject(r, "buy", q.userId, 0, StatusOf(msg), msg)
     ELSE req' = [req EXCEPT ![r] =
            [q EXCEPT !.pc = "updNumber", !.amount = amount,
                      !.userData = UserDataRead(users[q.userId])]]
  /\ UNCHANGED <<deployment, numbers, users, transactions>>

\* `await numberRef.update({status: 'sold', soldTo: userId, ...})`
NTBuyUpdateNumber(r) ==
  LET q == req[r] IN
  /\ q.pc = "updNumber" /\ q.kind = "buy"
  /\ IF numbers[q.numberId].exists
     THEN /\ numbers' = [numbers EXCEPT ![q.numberId] =
                           SoldNumber(@, q.userId)]
          /\ req' = [req EXCEPT ![r].pc = "updUser"]
     ELSE /\ Reject(r, "buy", q.userId, 0, 500,
                    "Database error: No document to update")
          /\ UNCHANGED numbers
  /\ UNCHANGED <<deployment, users, transactions>>

\* `await userRef.update({credits: increment(-numberPrice), ...})` and the
\* response; no Transaction document is written by this variant
NTBuyUpdateUser(r) ==
  LET q == req[r]
      snap == completeNumberData(q.numberData, q.numberId, q.amount) IN
  /\ q.pc = "updUser" /\ q.kind = "buy"
  /\ IF users[q.userId].exists
     THEN /\ users' = [users EXCEPT ![q.userId] =
               UserAfterPurchase(@, q.amount, <<q.numberData.phoneNumber>>,
                                 <<snap>>)]
          /\ Succeed(r, "Purchase successful", q.userData.credits - q.amount, 0)
     ELSE /\ Reject(r, "buy", q.userId, 0, 500,
                    "Database error: No document to update")
          /\ UNCHANGED users
  /\ UNCHANGED <<deployment, numbers, transactions>>

\* start of the bulk handler up to and including `await userRef.get()`,
\* the `numbers` array of the body drawn from `lists`
NTBulkRequest(r, lists) ==
  /\ deployment \in {"tok", "p0"}
  /\ Arrives(r)
  /\ \E token \in Tokens, userId \in UserIdInputs,
        quantity \in QuantityInputs, totalPrice \in TotalPriceInputs,
        refs \in lists :
       LET pre == Precheck(token, userId,
                           \/ userId = Missing \/ quantity = 0
                           \/ totalPrice = 0 \/ Len(refs) = 0) IN
       IF pre.status # 0
       THEN Reject(r, "bulk", userId, 0, pre.status, pre.message)
       ELSE IF BulkCheck(users[userId], totalPrice) # "ok"
       THEN RejectAfterRead(r, "bulk", token, userId,
                            StatusOf(BulkCheck(users[userId], totalPrice)),
                            BulkCheck(users[userId], totalPrice))
       ELSE req' = [req EXCEPT ![r] =
              [Idle EXCEPT !.pc = "batch", !.kind = "bulk",
                           !.token = token,
                           !.userId = userId, !.refs = refs,
                           !.price = totalPrice, !.quantity = quantity,
                           !.amount = totalPrice,
                           !.userData = UserDataRead(users[userId])]]
  /\ UNCHANGED <<deployment, numbers, users, transactions>>

NTBulkStart(r) == NTBulkRequest(r, BulkLists)

\* `await batch.commit()`: the Number updates and the user update, applied
\* together or not at all; no Transaction document is written
NTBulkCommit(r) ==
  LET q == req[r]
      snaps == purchasedNumbersData(q.refs, q.amount, q.quantity) IN
  /\ q.pc = "batch" /\ q.kind = "bulk"
  /\ IF RefsExist(q.refs) /\ users[q.userId].exists
     THEN /\ numbers' = BulkSold(q.refs, q.userId)
          /\ users' = [users EXCEPT ![q.userId] =
               UserAfterPurchase(@, q.amount, phoneNumbersList(q.refs), snaps)]
          /\ Succeed(r, "Bulk purchase successful",
                     q.userData.credits - q.amount, Len(q.refs))
     ELSE /\ Reject(r, "bulk", q.userId, 0, 500,
                    "Database error: No document to update")
          /\ UNCHANGED <<numbers, users>>
  /\ UNCHANGED <<deployment, transactions>>

NTNext ==
  \E r \in Requests :
    \/ NTBuyStart(r) \/ NTBuyGetUser(r) \/ NTBuyUpdateNumber(r)
    \/ NTBuyUpdateUser(r) \/ NTBulkStart(r) \/ NTBulkCommit(r)

\* ------------------------------------------------ the store rejects a call
\* the store call an in-flight request is waiting for throws (the store is
\* unreachable or refuses the write): the handler's catch answers 500 with
\* error.message, behind 'Database error: ' in the plain variants
StoreFail(r) ==
  /\ req[r].pc \in {"commit", "getUser", "updNumber", "updUser", "batch"}
  /\ Reject(r, req[r].kind, req[r].userId, req[r].attempt, 500,
            IF deployment = "tx" THEN "UNAVAILABLE"
            ELSE "Database error: UNAVAILABLE")
  /\ UNCHANGED <<deployment, numbers, users, transactions>>

Next == TxNext \/ NTNext

Spec == Init /\ [][Next]_vars

NextFail == Next \/ \E r \in Requests : StoreFail(r)

\* as Spec, and any store call of a request may fail
SpecFail == Init /\ [][NextFail]_vars

\* ------------------------------------------- single purchases, any price
TxBuySigned(r) == TxBuyRequest(r, SignedPriceInputs)
NTBuySigned(r) == NTBuyRequest(r, SignedPriceInputs)

NextPrice ==
  \E r \in Requests :
    \/ TxBuySigned(r) \/ TxBuyCommit(r) \/ TxBuyRetry(r)
    \/ NTBuySigned(r) \/ NTBuyGetUser(r) \/ NTBuyUpdateNumber(r)
    \/ NTBuyUpdateUser(r)

\* the single-purchase handlers, the body's price of either sign
SpecPrice == Init /\ [][NextPrice]_vars

\* -------------------------------------- "tx": POST /api/admin/add-credit
\* adminDoc.exists && adminDoc.data().role === 'admin'; the admin's own
\* document is written by no handler of the model
IsAdmin(adminId) == adminId = "adm"

\* validation, `await ...doc(adminId).get()` and the admin check
AddCreditStart(r) ==
  /\ deployment = "tx"
  /\ Arrives(r)
  /\ \E adminId \in AdminIdInputs, userId \in UserIdInputs,
        amount \in CreditInputs :
       IF adminId = Missing \/ userId = Missing \/ amount = 0 \/ amount <= 0
       THEN Reject(r, "credit", userId, 0, 400, "Invalid request")
       ELSE IF ~IsAdmin(adminId)
       THEN Reject(r, "credit", userId, 0, 403, "Unauthorized")
       ELSE req' = [req EXCEPT ![r] =
              [Idle EXCEPT !.pc = "creditGet", !.kind = "credit",
                           !.adminId = adminId,
                           !.userId = userId, !.amount = amount]]
  /\ UNCHANGED <<deployment, numbers, users, transactions>>

\* `await userRef.get()`; newCredits = (userData.credits || 0) + amount
AddCreditGetUser(r) ==
  LET q == req[r] IN
  /\ q.pc = "creditGet"
  /\ IF ~users[q.userId].exists
     THEN Reject(r, "credit", q.userId, 0, 404, "User not found")
     ELSE req' = [req EXCEPT ![r] =
            [q EXCEPT !.pc = "creditUpd",
                      !.userData = UserDataRead(users[q.userId])]]
  /\ UNCHANGED <<deployment, numbers, users, transactions>>

\* `await userRef.update({credits: newCredits, ...})`
AddCreditUpdate(r) ==
  LET q == req[r] IN
  /\ q.pc = "creditUpd"
  /\ IF users[q.userId].exists
     THEN /\ users' = [users EXCEPT ![q.userId].credits =
                         q.userData.credits + q.amount]
          /\ req' = [req EXCEPT ![r].pc = "creditLog"]
     ELSE /\ Reject(r, "credit", q.userId, 0, 500, "No document to update")
          /\ UNCHANGED users
  /\ UNCHANGED <<deployment, numbers, transactions>>

\* `await db.collection('transactions').add({type: 'credit_added', ...})`
\* and the response
AddCreditLog(r) ==
  LET q == req[r] IN
  /\ q.pc = "creditLog"
  /\ transactions' = Append(transactions,
       TransactionRecord(q.userId, "credit_added", q.amount, <<>>, <<>>))
  /\ Succeed(r, "Credit added successfully", q.userData.credits + q.amount, 0)
  /\ UNCHANGED <<deployment, numbers, users>>

CreditNext ==
  \E r \in Requests :
    \/ AddCreditStart(r) \/ AddCreditGetUser(r)
    \/ AddCreditUpdate(r) \/ AddCreditLog(r)

InitTx == Init /\ deployment = "tx"

\* the runTransaction variant: purchases and the admin's add-credit
SpecCredit == InitTx /\ [][TxNext \/ CreditNext]_vars

\* ------------------------------------------ POST /api/user/numbers/delete
\* .filter(num => !numbers.includes(num)); num !== phoneNumber in "tx"
WithoutPhones(list, phones) ==
  SelectSeq(list, LAMBDA num : \A i \in 1..Len(phones) : phones[i] # num)

WithoutSnapshotsKeepsAll(list, phones) == list
\* .filter(item => !numbers.includes(item.phoneNumber))
WithoutSnapshots(list, phones) ==
  SelectSeq(list,
            LAMBDA item : \A i \in 1..Len(phones) : phones[i] # item.phoneNumber)

\* validation, `await userRef.get()` and the filtered lists
DeleteStart(r) ==
  /\ Arrives(r)
  /\ \E token \in Tokens, userId \in UserIdInputs, phones \in DeleteInputs :
       LET pre == Precheck(token, userId, userId = Missing \/ Len(phones) = 0)
       IN
       IF pre.status # 0
       THEN Reject(r, "delete", userId, 0, pre.status,
                   IF pre.status = 400 THEN "Invalid request" ELSE pre.message)
       ELSE IF ~users[userId].exists
       THEN RejectAfterRead(r, "delete", token, userId, 404,
                            "User not found")
       ELSE /\ deployment = "tx" => Len(phones) = 1
            /\ req' = [req EXCEPT ![r] =
                 [Idle EXCEPT
                    !.pc = "delUpd", !.kind = "delete", !.userId = userId,
                    !.token = token,
                    !.items = phones,
                    !.userData =
                      [UserDataRead(users[userId]) EXCEPT
                         !.purchasedNumbers =
                            WithoutPhones(users[userId].purchasedNumbers,
                                          phones),
                         !.purchasedNumbersData =
                            WithoutSnapshots(
                              users[userId].purchasedNumbersData, phones)]]]
  /\ UNCHANGED <<deployment, numbers, users, transactions>>

DeleteUpdateWritesDocument(r) ==
  LET q == req[r] IN
  /\ q.pc = "delUpd"
  /\ users' = [users EXCEPT ![q.userId] =
       [@ EXCEPT !.credits = q.userData.credits,
                 !.purchasedNumbers = q.userData.purchasedNumbers,
                 !.purchasedNumbersData = q.userData.purchasedNumbersData]]
  /\ Succeed(r, "Numbers deleted successfully", 0, 0)
  /\ UNCHANGED <<deployment, numbers, transactions>>

\* `await userRef.update({purchasedNumbers, purchasedNumbersData})` and the
\* response
DeleteUpdate(r) ==
  LET q == req[r] IN
  /\ q.pc = "delUpd"
  /\ users' = [users EXCEPT ![q.userId] =
       [@ EXCEPT !.purchasedNumbers = q.userData.purchasedNumbers,
                 !.purchasedNumbersData = q.userData.purchasedNumbersData]]
  /\ Succeed(r, IF deployment = "tx" THEN "Number deleted successfully"
                ELSE "Numbers deleted successfully", 0, 0)
  /\ UNCHANGED <<deployment, numbers, transactions>>

DeleteNext == \E r \in Requests : DeleteStart(r) \/ DeleteUpdate(r)

BuyNext ==
  \E r \in Requests :
    \/ TxBuyStart(r) \/ TxBuyCommit(r) \/ TxBuyRetry(r)
    \/ NTBuyStart(r) \/ NTBuyGetUser(r) \/ NTBuyUpdateNumber(r)
    \/ NTBuyUpdateUser(r)

\* single purchases and the user's delete-numbers, in every variant
SpecDelete == Init /\ [][BuyNext \/ DeleteNext]_vars

\* ------------------------------------------ POST /api/admin/numbers/upload
\* the phone numbers of an upload: "p1" is in the inventory already, "p3"
\* is new.  Items without a phone number are left out: "tok" and "p0" skip
\* them before the existence query.
UploadPhones == {"p1", "p3"}
\* the `numbers` arrays of an upload; the same phone number may come twice
UploadLists == UNION { [1..k -> UploadPhones] : k \in 0..MaxBatch }
\* ids that db.collection('numbers').doc() hands out, in the order the
\* model uses them (the auto-generated id itself is never looked at)
NewNumberIds == [i \in 1..(NumReq * MaxBatch) |-> "n" \o ToString(i + 2)]
NewNumberIdSet == { NewNumberIds[i] : i \in 1..Len(NewNumberIds) }

\* what an admin route answers before its work: verifyToken ("tok", where
\* adminId is req.user.uid), the required fields, the role of the caller
AdminCheck(adminId, missing, invalid) ==
  IF deployment = "tok" /\ adminId = Missing
    THEN [status |-> 401, message |-> "No token provided"]
  ELSE IF adminId = Missing \/ missing
    THEN [status |-> 400, message |-> invalid]
  ELSE IF ~IsAdmin(adminId)
    THEN [status |-> 403,
          message |-> IF deployment = "tx" THEN "Unauthorized"
                      ELSE "Unauthorized: Admin access required"]
  ELSE [status |-> 0, message |-> "ok"]

\* .where('phoneNumber', '==', phoneNumber).limit(1).get() is not empty:
\* the query sees the committed documents only
PhoneExists(phoneNumber) ==
  \E n \in DOMAIN numbers :
    numbers[n].exists /\ numbers[n].phoneNumber = phoneNumber

\* batch.set(numberRef, {phoneNumber, price: price || 0.30,
\*                       status: 'available', ...})
NewNumber(phoneNumber, price) ==
  [exists |-> TRUE, phoneNumber |-> phoneNumber,
   price |-> IF price # 0 THEN price ELSE DefaultPrice,
   status |-> "available", soldTo |-> ""]

\* validation, `await ...doc(adminId).get()`, the admin check, db.batch()
UploadStart(r) ==
  /\ Arrives(r)
  /\ \E adminId \in AdminIdInputs, list \in UploadLists, price \in PriceInputs :
       LET pre == AdminCheck(adminId, Len(list) = 0, "Invalid request") IN
       IF pre.status # 0
       THEN Reject(r, "upload", adminId, 0, pre.status, pre.message)
       ELSE req' = [req EXCEPT ![r] =
              [Idle EXCEPT !.pc = "uploadItem", !.kind = "upload",
                           !.adminId = adminId, !.price = price,
                           !.items = list]]
  /\ UNCHANGED <<deployment, numbers, users, transactions>>

\* one round of `for (const item of numbers)`: the awaited existence query,
\* then `continue` or batch.set and successCount++
UploadItem(r) ==
  LET q == req[r] IN
  /\ q.pc = "uploadItem"
  /\ Len(q.items) > 0
  /\ req' = [req EXCEPT ![r] =
       [q EXCEPT !.items = Tail(q.items),
                 !.batch = IF PhoneExists(Head(q.items)) THEN q.batch
                           ELSE Append(q.batch,
                                       NewNumber(Head(q.items), q.price))]]
  /\ UNCHANGED <<deployment, numbers, users, transactions>>

\* the documents of a committed batch, each under a fresh id
WithBatch(batch) ==
  LET free == SelectSeq(NewNumberIds, LAMBDA n : ~numbers[n].exists) IN
  [n \in DOMAIN numbers |->
     IF \E i \in 1..Len(batch) : free[i] = n
     THEN batch[CHOOSE i \in 1..Len(batch) : free[i] = n]
     ELSE numbers[n]]

\* after the loop: `if (successCount > 0) await batch.commit()` and the
\* response; "tok" and "p0" answer 400 when nothing was added
UploadCommit(r) ==
  LET q == req[r] IN
  /\ q.pc = "uploadItem"
  /\ Len(q.items) = 0
  /\ Len(SelectSeq(NewNumberIds, LAMBDA n : ~numbers[n].exists))
       >= Len(q.batch)
  /\ numbers' = WithBatch(q.batch)
  /\ IF Len(q.batch) = 0 /\ deployment # "tx"
     THEN Reject(r, "upload", q.adminId, 0, 400, "No valid numbers to upload")
     ELSE Succeed(r, "Added numbers", 0, Len(q.batch))
  /\ UNCHANGED <<deployment, users, transactions>>

UploadNext ==
  \E r \in Requests : UploadStart(r) \/ UploadItem(r) \/ UploadCommit(r)

\* the inventory of Init with room for the uploaded documents
InitUpload ==
  /\ deployment \in {"tx", "tok", "p0"}
  /\ numbers = [n \in NumberIds \cup NewNumberIdSet |->
                  IF n \in NumberIds THEN InitialNumbers[n] ELSE NoNumber]
  /\ users = InitialUsers
  /\ transactions = <<>>
  /\ req = [r \in Requests |-> Idle]

\* the admin's uploads, in every variant
SpecUpload == InitUpload /\ [][UploadNext]_vars

\* --------------------- bulk purchases whose refs the client made up itself
\* a ref whose phoneNumber is not the one of the Number it names
ForgedRefs == BulkRefs \cup { [id |-> "n1", phoneNumber |-> "p9"] }
ForgedLists ==
  { refs \in UNION { [1..k -> ForgedRefs] : k \in 0..MaxBatch } :
      \A i, j \in 1..Len(refs) : i # j => refs[i].id # refs[j].id }

TxBulkForged(r) == TxBulkRequest(r, ForgedLists)
NTBulkForged(r) == NTBulkRequest(r, ForgedLists)

NextRefs ==
  \E r \in Requests :
    \/ TxBulkForged(r) \/ TxBulkCommit(r) \/ TxBulkRetry(r)
    \/ NTBulkForged(r) \/ NTBulkCommit(r)

\* bulk purchases with any `numbers` array, in every variant
SpecRefs == Init /\ [][NextRefs]_vars

\* ----------------------------------------------- purchases under fairness
\* the steps a handler takes after the request has arrived: each is the
\* continuation of an awaited store call
HandlerStep(r) ==
  \/ TxBuyCommit(r) \/ TxBuyRetry(r) \/ TxBulkCommit(r) \/ TxBulkRetry(r)
  \/ NTBuyGetUser(r) \/ NTBuyUpdateNumber(r) \/ NTBuyUpdateUser(r)
  \/ NTBulkCommit(r)

\* the store answers every call and the event loop runs every continuation
Fairness == \A r \in Requests : WF_vars(HandlerStep(r))

\* the runTransaction variant, where a handler waits for retries
SpecLive == InitTx /\ [][TxNext]_vars /\ Fairness
\* every variant
SpecLiveAll == Spec /\ Fairness

\* ------------------------------------- the other admin routes and signup
SoldQueryLimit == 100    \* .where('status', '==', 'sold').limit(100)

\* the Number documents in the order of their ids, which is the order of a
\* query without orderBy; the "s..." documents exist in InitSold only
SoldBacklog ==
  [i \in 1..(SoldQueryLimit + 1) |->
     "s" \o (IF i < 10 THEN "00" ELSE IF i < 100 THEN "0" ELSE "")
         \o ToString(i)]
NumberIdOrder == <<"n0", "n1", "n2">> \o NewNumberIds \o SoldBacklog

\* numberIds of a numbers/delete request
NumberIdLists == {<<>>, <<"n1">>, <<"n0">>, <<"n1", "n2">>}
\* `updates` of a users/update request: a modelled field, an unmodelled one
UserUpdates == { [credits |-> 9], [status |-> "blocked"] }

\* return res.json(formatResponse(true, data, message)) of a handler that
\* answers in the step it starts with
Answer(r, kind, adminId, userId, message, count) ==
  req' = [req EXCEPT ![r] =
    [Idle EXCEPT !.pc = "done", !.kind = kind, !.adminId = adminId,
                 !.userId = userId,
                 !.resp = formatResponse(200, TRUE, message, 0, count)]]

NumbersDeleteDropsLog(r) ==
  /\ Arrives(r)
  /\ \E adminId \in AdminIdInputs, ids \in NumberIdLists :
       LET pre == AdminCheck(adminId, Len(ids) = 0, "Invalid request") IN
       IF pre.status # 0
       THEN /\ Reject(r, "numbersDelete", adminId, 0, pre.status, pre.message)
            /\ UNCHANGED <<numbers, transactions>>
       ELSE /\ numbers' = [n \in DOMAIN numbers |->
                             IF \E i \in 1..Len(ids) : ids[i] = n
                             THEN NoNumber ELSE numbers[n]]
            /\ transactions' =
                 SelectSeq(transactions,
                           LAMBDA t : \A i \in 1..Len(t.numbersData) :
                                        \A j \in 1..Len(ids) :
                                          t.numbersData[i].originalId # ids[j])
            /\ Answer(r, "numbersDelete", adminId, "", "Deleted numbers",
                      Len(ids))
  /\ UNCHANGED <<deployment, users>>

\* POST /api/admin/numbers/delete: batch.delete of every id, commit
NumbersDelete(r) ==
  /\ Arrives(r)
  /\ \E adminId \in AdminIdInputs, ids \in NumberIdLists :
       LET pre == AdminCheck(adminId, Len(ids) = 0, "Invalid request") IN
       IF pre.status # 0
       THEN /\ Reject(r, "numbersDelete", adminId, 0, pre.status, pre.message)
            /\ UNCHANGED numbers
       ELSE /\ numbers' = [n \in DOMAIN numbers |->
                             IF \E i \in 1..Len(ids) : ids[i] = n
                             THEN NoNumber ELSE numbers[n]]
            /\ Answer(r, "numbersDelete", adminId, "", "Deleted numbers",
                      Len(ids))
  /\ UNCHANGED <<deployment, users, transactions>>

\* the ids of snapshot.docs
SoldSnapshot ==
  LET sold == SelectSeq(NumberIdOrder,
                        LAMBDA n : /\ n \in DOMAIN numbers
                                   /\ numbers[n].exists
                                   /\ numbers[n].status = "sold")
  IN IF Len(sold) > SoldQueryLimit THEN SubSeq(sold, 1, SoldQueryLimit)
     ELSE sold

\* POST /api/admin/numbers/delete-sold ("tok", "p0") up to the query
DeleteSoldStart(r) ==
  /\ deployment # "tx"
  /\ Arrives(r)
  /\ \E adminId \in AdminIdInputs :
       LET pre == AdminCheck(adminId, FALSE, "adminId required") IN
       IF pre.status # 0
       THEN Reject(r, "deleteSold", adminId, 0, pre.status, pre.message)
       ELSE IF Len(SoldSnapshot) = 0
       THEN Reject(r, "deleteSold", adminId, 0, 404, "No sold numbers found")
       ELSE req' = [req EXCEPT ![r] =
              [Idle EXCEPT !.pc = "soldCommit", !.kind = "deleteSold",
                           !.adminId = adminId, !.items = SoldSnapshot]]
  /\ UNCHANGED <<deployment, numbers, users, transactions>>

\* snapshot.forEach(doc => batch.delete(doc.ref)); await batch.commit()
DeleteSoldCommit(r) ==
  LET q == req[r] IN
  /\ q.pc = "soldCommit"
  /\ numbers' = [n \in DOMAIN numbers |->
                   IF \E i \in 1..Len(q.items) : q.items[i] = n
                   THEN NoNumber ELSE numbers[n]]
  /\ Succeed(r, "Deleted sold numbers", 0, Len(q.items))
  /\ UNCHANGED <<deployment, users, transactions>>

\* {...updates} written over the fields of the document
WithUpdates(doc, updates) ==
  [f \in DOMAIN doc |-> IF f \in DOMAIN updates THEN updates[f] ELSE doc[f]]

\* POST /api/admin/users/update ("tok", "p0")
UsersUpdate(r) ==
  /\ deployment # "tx"
  /\ Arrives(r)
  /\ \E adminId \in AdminIdInputs, userId \in UserIdInputs,
        updates \in UserUpdates :
       LET pre == AdminCheck(adminId, userId = Missing, "Invalid request") IN
       IF pre.status # 0
       THEN /\ Reject(r, "usersUpdate", userId, 0, pre.status, pre.message)
            /\ UNCHANGED users
       ELSE IF ~users[userId].exists
       THEN /\ Reject(r, "usersUpdate", userId, 0, 500,
                      "Database error: No document to update")
            /\ UNCHANGED users
       ELSE /\ users' = [users EXCEPT ![userId] = WithUpdates(@, updates)]
            /\ Answer(r, "usersUpdate", adminId, userId,
                      "User updated successfully", 0)
  /\ UNCHANGED <<deployment, numbers, transactions>>

\* POST /api/admin/users/delete ("tok", "p0") up to `await userDoc.get()`
UsersDeleteStart(r) ==
  /\ deployment # "tx"
  /\ Arrives(r)
  /\ \E adminId \in AdminIdInputs, userId \in UserIdInputs :
       LET pre == AdminCheck(adminId, userId = Missing, "Invalid request") IN
       IF pre.status # 0
       THEN Reject(r, "usersDelete", userId, 0, pre.status, pre.message)
       ELSE IF ~users[userId].exists
       THEN Reject(r, "usersDelete", userId, 0, 404, "User not found")
       ELSE req' = [req EXCEPT ![r] =
              [Idle EXCEPT !.pc = "userDel", !.kind = "usersDelete",
                           !.adminId = adminId, !.userId = userId]]
  /\ UNCHANGED <<deployment, numbers, users, transactions>>

\* `await db.collection('users').doc(userId).delete()` and the response
UsersDeleteCommit(r) ==
  LET q == req[r] IN
  /\ q.pc = "userDel"
  /\ users' = [users EXCEPT ![q.userId] = NoUser]
  /\ Succeed(r, "User deleted successfully", 0, 0)
  /\ UNCHANGED <<deployment, numbers, transactions>>

\* userData of a signup: credits 0, empty lists, role 'user'
SignupUser == [NoUser EXCEPT !.exists = TRUE, !.role = "user"]

\* POST /api/auth/signup: `await db.collection('users').doc(uid).set(
\* userData)`.  "tok" first asks Firebase Auth, which knows every user that
\* has signed up, and answers 400 for one it knows.
Signup(r) ==
  /\ Arrives(r)
  /\ \E uid \in UserIdInputs :
       IF uid = Missing
       THEN /\ Reject(r, "signup", uid, 0, 400, "Missing required fields")
            /\ UNCHANGED users
       ELSE IF deployment = "tok" /\ users[uid].exists
       THEN /\ Reject(r, "signup", uid, 0, 400, "User already exists")
            /\ UNCHANGED users
       ELSE /\ users' = [users EXCEPT ![uid] = SignupUser]
            /\ Answer(r, "signup", "", uid, "User created successfully", 0)
  /\ UNCHANGED <<deployment, numbers, transactions>>

\* "tx": GET /api/admin/settings/bulk-buy; the admin check runs only
\* `if (adminId)`, and the stored settings or the default ones are returned
SettingsGet(r) ==
  /\ deployment = "tx"
  /\ Arrives(r)
  /\ \E adminId \in AdminIdInputs :
       IF adminId # Missing /\ ~IsAdmin(adminId)
       THEN Reject(r, "settingsGet", adminId, 0, 403, "Unauthorized")
       ELSE Answer(r, "settingsGet", adminId, "", "", 0)
  /\ UNCHANGED <<deployment, numbers, users, transactions>>

AdminNext ==
  \E r \in Requests :
    \/ NumbersDelete(r) \/ UsersUpdate(r)
    \/ UsersDeleteStart(r) \/ UsersDeleteCommit(r)
    \/ Signup(r) \/ SettingsGet(r)

DeleteSoldNext ==
  \E r \in Requests : DeleteSoldStart(r) \/ DeleteSoldCommit(r)

\* every admin route of the model and signup, in every variant
SpecAdmin == InitUpload /\ [][UploadNext \/ CreditNext \/ AdminNext]_vars

UsersDeleteNext ==
  \E r \in Requests : UsersDeleteStart(r) \/ UsersDeleteCommit(r)

\* single purchases, add-credit and the routes that delete documents
SpecPurge ==
  Init /\ [][\/ BuyNext \/ CreditNext \/ DeleteSoldNext \/ UsersDeleteNext
             \/ \E r \in Requests : NumbersDelete(r)]_vars

\* an inventory with more sold Numbers than one query returns: the Numbers
\* of Init and SoldQueryLimit + 1 Numbers sold earlier, which their buyers
\* have since removed from their lists
SoldBacklogSet == { SoldBacklog[i] : i \in 1..Len(SoldBacklog) }
InitSold ==
  /\ deployment \in {"tx", "tok", "p0"}
  /\ numbers = [n \in NumberIds \cup SoldBacklogSet |->
                  IF n \in NumberIds THEN InitialNumbers[n]
                  ELSE [exists |-> TRUE, phoneNumber |-> "p" \o n,
                        price |-> DefaultPrice, status |-> "sold",
                        soldTo |-> "u1"]]
  /\ users = InitialUsers
  /\ transactions = <<>>
  /\ req = [r \in Requests |-> Idle]

\* single purchases and delete-sold over the large inventory
SpecSold == InitSold /\ [][BuyNext \/ DeleteSoldNext]_vars

\* the store of InitTx with its history in the log: both users were created
\* with credits 0 and the admin has added 0.50 for u1 and 0.20 for u2
InitLedger ==
  /\ deployment = "tx"
  /\ numbers = InitialNumbers
  /\ users = InitialUsers
  /\ transactions =
       << TransactionRecord("u1", "credit_added", InitialUsers["u1"].credits,
                            <<>>, <<>>),
          TransactionRecord("u2", "credit_added", InitialUsers["u2"].credits,
                            <<>>, <<>>) >>
  /\ req = [r \in Requests |-> Idle]

\* the runTransaction variant with the log of the earlier top-ups
SpecLedger == InitLedger /\ [][TxNext \/ CreditNext]_vars

\* the token-verified variant: purchases and the user's delete-numbers
InitTok == Init /\ deployment = "tok"
\* bulk requests naming one Number at most: the token is checked before the
\* `numbers` array is looked at
NTBulkShort(r) == NTBulkRequest(r, { refs \in BulkLists : Len(refs) <= 1 })
NextToken ==
  \/ \E r \in Requests :
       \/ NTBuyStart(r) \/ NTBuyGetUser(r) \/ NTBuyUpdateNumber(r)
       \/ NTBuyUpdateUser(r) \/ NTBulkShort(r) \/ NTBulkCommit(r)
  \/ DeleteNext
SpecToken == InitTok /\ [][NextToken]_vars

\* a user who owns three numbers: u1 has bought n1 and, earlier, two Numbers
\* that the admin has deleted from the inventory since
OwnedSnapshot(id, phone) ==
  completeNumberData([NoNumber EXCEPT !.exists = TRUE, !.phoneNumber = phone],
                     id, DefaultPrice)
InitOwned ==
  /\ deployment \in {"tx", "tok", "p0"}
  /\ numbers = [InitialNumbers EXCEPT !["n1"] = SoldNumber(@, "u1")]
  /\ users = [InitialUsers EXCEPT !["u1"] =
       [@ EXCEPT !.purchasedNumbers = <<"p3", "p1", "p4">>,
                 !.purchasedNumbersData =
                    << OwnedSnapshot("n3", "p3"), OwnedSnapshot("n1", "p1"),
                       OwnedSnapshot("n4", "p4") >>]]
  /\ transactions = <<>>
  /\ req = [r \in Requests |-> Idle]

\* single purchases and delete-numbers of users who own numbers already
SpecOwned == InitOwned /\ [][BuyNext \/ DeleteNext]_vars

\* ================================================================ claims
InFlight(r) == req[r].pc \notin {"idle", "done"}
Completes(r) == req[r].pc # "done" /\ req'[r].pc = "done"
Succeeded(r) == req[r].pc = "done" /\ req[r].resp.success
Plain == deployment \in {"tok", "p0"}
NoBulkRequest == \A r \in Requests : req[r].kind # "bulk"
Quiescent == \A r \in Requests : ~InFlight(r)
\* the single purchases of Number n that reported success
BuyWinners(n) ==
  { r \in Requests : Succeeded(r) /\ req[r].kind = "buy"
                                  /\ req[r].numberId = n }
\* the purchases of user u that reported success
Purchases(u) ==
  { r \in Requests : /\ Succeeded(r) /\ req[r].userId = u
                     /\ req[r].kind \in {"buy", "bulk"} }
\* the add-credit requests for user u that reported success
CreditsAdded(u) ==
  { r \in Requests : /\ Succeeded(r) /\ req[r].userId = u
                     /\ req[r].kind = "credit" }
RECURSIVE SumAmounts(_)
SumAmounts(S) ==
  IF S = {} THEN 0
  ELSE LET r == CHOOSE x \in S : TRUE IN req[r].amount + SumAmounts(S \ {r})
PurchaseTransactions ==
  { i \in 1..Len(transactions) :
      transactions[i].type \in {"single_purchase", "bulk_purchase"} }

\* ---- C1
C1_Winner ==
  deployment = "tx" =>
    \A n \in NumberIds :
      /\ Cardinality(BuyWinners(n)) <= 1
      /\ \A r \in BuyWinners(n) :
           NoBulkRequest => /\ numbers[n].status = "sold"
                            /\ numbers[n].soldTo = req[r].userId
C1_Step ==
  deployment = "tx" =>
    \A r \in Requests :
      (req[r].kind = "buy" /\ InFlight(r) /\ Completes(r)) =>
        LET n == req[r].numberId
            u == req[r].userId IN
        /\ numbers[n].status = "sold" =>
             /\ req'[r].resp.message = "Number is not available"
             /\ store' = store
        /\ ( /\ numbers[n].status = "available"
             /\ users[u].exists
             /\ users[u].credits >= NumberPrice(req[r].price, numbers[n].price) )
             => req'[r].resp.success
        /\ req'[r].resp.success =>
             /\ users'[u].credits = users[u].credits - req[r].amount
             /\ \A v \in UserIds \ {u} : users'[v] = users[v]
\* C1: transactional buy handler, requests that run concurrently on the same
\* Number: at most one of them ever reports success and that winner's user
\* is the Number's soldTo; a request still in flight when the Number has
\* been sold ends with 'Number is not available' and changes nothing; one
\* whose Number is available and whose user holds the price succeeds, and
\* only the winner's credits change, by the price.
C1_NoDoubleSaleTx == [](C1_Winner) /\ [][C1_Step]_vars

\* two single purchases, the second past its checks when the first one
\* committed: it ran again and ended with 'Number is not available'
C1_Witness ==
  /\ deployment = "tx"
  /\ \E r1, r2 \in Requests :
       /\ r1 # r2
       /\ Succeeded(r1) /\ req[r1].kind = "buy"
       /\ numbers[req[r1].numberId].soldTo = req[r1].userId
       /\ req[r2].pc = "done" /\ req[r2].kind = "buy"
       /\ req[r2].userId # req[r1].userId
       /\ req[r2].attempt >= 1
       /\ req[r2].resp.message = "Number is not available"

\* ---- C2
\* C2: plain (token-verified and part_000) buy handlers: at most one single
\* purchase of a Number ever reports success.
C2_AtMostOneWinnerPlain ==
  Plain => \A n \in NumberIds : Cardinality(BuyWinners(n)) <= 1

\* two single purchases of one Number by different users both reported
\* success and both users were debited
C2_Witness ==
  /\ Plain
  /\ \E r1, r2 \in Requests :
       /\ req[r1].userId # req[r2].userId
       /\ {r1, r2} \subseteq BuyWinners(req[r1].numberId)
       /\ \A r \in {r1, r2} :
            users[req[r].userId].credits
              = InitialUsers[req[r].userId].credits - req[r].amount

\* ---- C3
C3_Step ==
  \A r \in Requests :
    ( /\ req[r].kind = "bulk" /\ InFlight(r) /\ Completes(r)
      /\ \E i \in 1..Len(req[r].refs) :
           numbers[req[r].refs[i].id].status = "sold" )
      => /\ ~req'[r].resp.success
         /\ numbers' = numbers
         /\ users' = users
\* C3: a bulk purchase that commits while a Number of its batch is already
\* sold fails, and changes no Number and no user.
C3_BulkAllOrNothing == [][C3_Step]_vars

\* a single purchase of a Number succeeded inside a transaction, and the
\* Number now belongs to another user, whose bulk purchase succeeded later
C3_Witness ==
  /\ deployment = "tx"
  /\ \E r1, r2 \in Requests :
       /\ Succeeded(r1) /\ req[r1].kind = "buy"
       /\ Succeeded(r2) /\ req[r2].kind = "bulk"
       /\ req[r2].userId # req[r1].userId
       /\ numbers[req[r1].numberId].soldTo = req[r2].userId
       /\ users[req[r2].userId].credits
            = InitialUsers[req[r2].userId].credits - req[r2].amount

\* ---- C4
\* C4: transactional purchase handlers: no user's credits are ever negative
\* and the amounts of a user's successful purchases sum to at most the
\* credits the user held before the requests.
C4_NoOverdraftTx ==
  deployment = "tx" =>
    \A u \in Users :
      /\ users[u].credits >= 0
      /\ SumAmounts(Purchases(u)) <= InitialUsers[u].credits

\* a purchase succeeded and a concurrent one, which had passed the balance
\* check before, ran again and was refused for insufficient credits
C4_Witness ==
  /\ deployment = "tx"
  /\ \E r1, r2 \in Requests :
       /\ r1 # r2
       /\ Succeeded(r1)
       /\ users[req[r1].userId].credits
            = InitialUsers[req[r1].userId].credits - req[r1].amount
       /\ req[r2].pc = "done" /\ req[r2].attempt >= 1
       /\ req[r2].userId = req[r1].userId
       /\ req[r2].resp.message = "Insufficient credits"

\* ---- C5
\* C5: plain purchase handlers: no user's credits are ever negative.
C5_NoOverdraftPlain ==
  Plain => \A u \in Users : users[u].credits >= 0

\* two purchases of one user both reported success and left the user with
\* negative credits
C5_Witness ==
  /\ Plain
  /\ \E u \in Users :
       /\ Cardinality(Purchases(u)) = 2
       /\ users[u].credits = InitialUsers[u].credits - SumAmounts(Purchases(u))
       /\ users[u].credits < 0

\* ---- C6
C6_Step ==
  \A n \in NumberIds :
    numbers[n].status = "sold" =>
      /\ numbers'[n].status = "sold"
      /\ numbers'[n].soldTo = numbers[n].soldTo
\* C6: a Number that is sold stays sold, and to the same user.
C6_SoldIsFinal == [][C6_Step]_vars

\* a Number is sold to one user while the snapshot of its single purchase
\* is in the purchasedNumbersData of another
C6_Witness ==
  \E n \in NumberIds, u \in Users :
    /\ numbers[n].status = "sold" /\ numbers[n].soldTo # u
    /\ \E i \in 1..Len(users[u].purchasedNumbersData) :
         /\ users[u].purchasedNumbersData[i].originalId = n
         /\ users[u].purchasedNumbersData[i].purchaseType = "single"

\* ---- C7
PreconditionFailures ==
  {"Number not found", "Number is not available", "User not found",
   "Insufficient credits", "Missing required fields"}
\* the positions of a request that has written nothing yet
PreWritePcs == {"idle", "getUser", "updNumber", "commit", "batch"}
C7_Step ==
  \A r \in Requests :
    /\ (req'[r] # req[r] /\ req'[r].pc \in PreWritePcs) => store' = store
    /\ (Completes(r) /\ req'[r].resp.message \in PreconditionFailures)
         => /\ req[r].pc \in PreWritePcs
            /\ store' = store
\* C7: a purchase (single or bulk, every variant) that ends with a failed
\* precondition has written nothing: none of its steps, up to and including
\* the one that answers, changes a Number, a user or the Transaction log.
C7_FailedPreconditionChangesNothing == [][C7_Step]_vars

\* u2 (0.20) was refused a Number at the price 0.30 (no request sends the
\* price 3, so it is the Number's own or the default): u2 keeps 0.20, both
\* Numbers are available, the log is empty
C7_Witness ==
  \E r \in Requests :
    /\ req[r].pc = "done" /\ req[r].kind = "buy"
    /\ req[r].userId = "u2"
    /\ req[r].resp.message = "Insufficient credits"
    /\ users = InitialUsers /\ users["u2"].credits = 2
    /\ numbers = InitialNumbers /\ transactions = <<>>

\* ---- C8
\* C8: single purchases, store calls may fail: whenever no request is in
\* flight, every sold Number is in the purchasedNumbersData of the user it
\* is sold to (that user was debited for it).
C8_NoPartialPurchase ==
  (NoBulkRequest /\ Quiescent) =>
    \A n \in NumberIds :
      numbers[n].status = "sold" =>
        \E i \in 1..Len(users[numbers[n].soldTo].purchasedNumbersData) :
          users[numbers[n].soldTo].purchasedNumbersData[i].originalId = n

\* a single purchase ended with the store's error after its Number update:
\* the Number is sold to the buyer, who still holds every credit
C8_Witness ==
  /\ Plain /\ NoBulkRequest /\ Quiescent
  /\ \E r \in Requests, n \in NumberIds :
       /\ req[r].pc = "done" /\ req[r].resp.status = 500
       /\ \A s \in Requests \ {r} : req[s].pc = "idle"
       /\ numbers[n].status = "sold" /\ numbers[n].soldTo = req[r].userId
       /\ users = InitialUsers

\* ---- C9
C9_Step ==
  deployment = "tx" =>
    \A r \in Requests :
      (req[r].kind = "buy" /\ Completes(r) /\ req'[r].resp.success) =>
        LET n == req[r].numberId
            u == req[r].userId
            c == users[u].credits
            p == NumberPrice(req[r].price, numbers[n].price)
            snap == [phoneNumber |-> numbers[n].phoneNumber,
                     originalId |-> n, purchaseType |-> "single",
                     price |-> [num |-> p, den |-> 1]] IN
        /\ numbers[n].status = "available" /\ c >= p
        /\ numbers'[n].status = "sold" /\ numbers'[n].soldTo = u
        /\ users'[u].credits = c - p
        /\ \E i \in 1..Len(users'[u].purchasedNumbers) :
             users'[u].purchasedNumbers[i] = numbers[n].phoneNumber
        /\ users'[u].purchasedNumbersData
             = Append(users[u].purchasedNumbersData, snap)
        /\ transactions' = Append(transactions,
             [userId |-> u, type |-> "single_purchase", amount |-> p,
              numbers |-> <<numbers[n].phoneNumber>>,
              numbersData |-> <<snap>>, status |-> "completed"])
C10_OneTransactionPerPurchase ==
  Cardinality(PurchaseTransactions)
    = Cardinality({ r \in Requests : Succeeded(r) })

\* a purchase of a plain variant reported success and the log is empty
C10_Witness ==
  /\ Plain
  /\ \E r \in Requests : Succeeded(r)
  /\ transactions = <<>>

\* ---- C11
C11_Step ==
  \A r \in Requests :
    (req[r].kind = "buy" /\ Completes(r) /\ req'[r].resp.success) =>
      LET n == req[r].numberId
          u == req[r].userId
          charged == IF req[r].price > 0 THEN req[r].price
                     ELSE IF numbers[n].price > 0 THEN numbers[n].price
                     ELSE 3 IN
      /\ req'[r].amount = charged
      /\ users'[u].credits = users[u].credits - charged
\* C11: the amount a successful single purchase charges is the price of the
\* request if that is greater than 0, otherwise the Number's price, and 0.30
\* if the Number has none; a price of zero or below is never charged.
C11_ChargedPrice == [][C11_Step]_vars

\* a single purchase at a price below zero succeeded and the buyer holds
\* more credits than before
C11_Witness ==
  \E r \in Requests :
    /\ Succeeded(r) /\ req[r].kind = "buy" /\ req[r].amount < 0
    /\ users[req[r].userId].credits
         = InitialUsers[req[r].userId].credits - req[r].amount
    /\ users[req[r].userId].credits > InitialUsers[req[r].userId].credits

\* ---- C12
RECURSIVE SumNum(_)
\* the sum of the numerators of the recorded per-item prices
SumNum(snaps) ==
  IF snaps = <<>> THEN 0 ELSE Head(snaps).price.num + SumNum(Tail(snaps))
\* the recorded prices num/den of snaps, all over one den, sum to total
PricesSumTo(snaps, total) ==
  /\ snaps # <<>>
  /\ \A i \in 1..Len(snaps) : snaps[i].price.den = snaps[1].price.den
  /\ SumNum(snaps) = total * snaps[1].price.den
C12_Step ==
  \A r \in Requests :
    (req[r].kind = "bulk" /\ Completes(r) /\ req'[r].resp.success) =>
      LET u == req[r].userId
          appended == SubSeq(users'[u].purchasedNumbersData,
                             Len(users[u].purchasedNumbersData) + 1,
                             Len(users'[u].purchasedNumbersData)) IN
      /\ PricesSumTo(appended, req[r].price)
      /\ deployment = "tx" =>
           PricesSumTo(transactions'[Len(transactions')].numbersData,
                       req[r].price)
\* C12: the per-item prices a successful bulk purchase records, in the
\* snapshots it appends to the user and in its Transaction's numbersData,
\* sum to the totalPrice of the request.
C12_BulkPricesSumToTotal == [][C12_Step]_vars

\* a user was debited 0.40 by one bulk purchase and holds a single bulk
\* snapshot, priced 0.40 / 2
C12_Witness ==
  \E u \in Users :
    /\ users[u].credits = InitialUsers[u].credits - 4
    /\ Len(users[u].purchasedNumbersData) = 1
    /\ users[u].purchasedNumbersData[1].purchaseType = "bulk"
    /\ users[u].purchasedNumbersData[1].price = [num |-> 4, den |-> 2]

\* ---- C13
C13_Step ==
  \A r \in Requests :
    ( /\ req[r].kind = "bulk" /\ InFlight(r) /\ Completes(r)
      /\ req[r].quantity # Len(req[r].refs) )
      => /\ ~req'[r].resp.success
         /\ store' = store
\* C13: a bulk purchase whose quantity differs from the number of its refs
\* is rejected and changes no Number, no user and no Transaction.
C13_QuantityMatchesRefs == [][C13_Step]_vars

\* a bulk purchase of one Number with quantity 2 reported success and is in
\* the Transaction log
C13_Witness ==
  /\ deployment = "tx"
  /\ \E r \in Requests, i \in 1..Len(transactions) :
       /\ Succeeded(r) /\ req[r].kind = "bulk"
       /\ req[r].resp.purchasedCount = 1
       /\ transactions[i].type = "bulk_purchase"
       /\ transactions[i].userId = req[r].userId
       /\ Len(transactions[i].numbers) = 1
       /\ transactions[i].numbersData[1].price.den = 2

\* ---- C14
\* C14: runTransaction variant: once every request has answered, a user's
\* credits are the initial credits plus the amounts of the successful
\* add-credit requests minus the amounts of the successful purchases.
C14_NoLostCreditUpdate ==
  Quiescent =>
    \A u \in Users :
      users[u].credits = InitialUsers[u].credits
                           + SumAmounts(CreditsAdded(u))
                           - SumAmounts(Purchases(u))

\* two add-credit requests of 0.10 for one user both reported success and
\* both are in the log, and the user holds only 0.10 more than before
C14_Witness ==
  /\ Quiescent
  /\ \E u \in Users :
       /\ Cardinality(CreditsAdded(u)) = 2
       /\ Len(transactions) = 2
       /\ \A i \in 1..2 : transactions[i].type = "credit_added"
       /\ users[u].credits = InitialUsers[u].credits + 1

\* ---- C15
C15_Step ==
  \A r \in Requests :
    Completes(r) =>
      LET u == req[r].userId
          n == req[r].numberId IN
      IF req'[r].resp.success
      THEN /\ users'[u].credits = users[u].credits - req[r].amount
           /\ req[r].kind = "buy" =>
                numbers'[n].status = "sold" /\ numbers'[n].soldTo = u
           /\ req[r].kind = "bulk" =>
                \A i \in 1..Len(req[r].refs) :
                  /\ numbers'[req[r].refs[i].id].status = "sold"
                  /\ numbers'[req[r].refs[i].id].soldTo = u
      ELSE /\ req[r].pc \in PreWritePcs
           /\ store' = store
\* C15: purchases, store calls may fail: a request that answers with a
\* failure has written nothing (it answers from a position before its first
\* write, in a step that changes no Number, user or Transaction), and a
\* request that answers with success leaves its Number(s) sold to its user
\* and the user debited by the amount.
C15_OutcomeMatchesEffects == [][C15_Step]_vars

\* a single purchase answered 500 after the store failed, no purchase of
\* its user succeeded, and a Number is sold to that user
C15_Witness ==
  \E r \in Requests, n \in NumberIds :
    /\ req[r].pc = "done" /\ req[r].kind = "buy"
    /\ req[r].resp.message = "Database error: UNAVAILABLE"
    /\ Purchases(req[r].userId) = {}
    /\ numbers[n].status = "sold" /\ numbers[n].soldTo = req[r].userId

\* ---- C16
\* C16: in every state, a Number n is sold to user u exactly if u's
\* purchasedNumbersData holds a snapshot with originalId n.
C16_ConsistentBookkeeping ==
  \A n \in NumberIds, u \in Users :
    (numbers[n].status = "sold" /\ numbers[n].soldTo = u)
      <=> \E i \in 1..Len(users[u].purchasedNumbersData) :
            users[u].purchasedNumbersData[i].originalId = n

\* a single purchase of a plain variant between its two writes: its Number
\* is sold to its user, who holds no snapshot and every credit
C16_Witness ==
  /\ Plain
  /\ \E r \in Requests :
       /\ req[r].pc = "updUser"
       /\ numbers[req[r].numberId].soldTo = req[r].userId
       /\ users[req[r].userId] = InitialUsers[req[r].userId]

\* ---- C17
C17_Step ==
  \A r \in Requests :
    (req'[r] # req[r] /\ req'[r].kind = "bulk") =>
      IF req'[r].resp.success
      THEN /\ \A i \in 1..Len(req[r].refs) :
                /\ numbers'[req[r].refs[i].id].status = "sold"
                /\ numbers'[req[r].refs[i].id].soldTo = req[r].userId
           /\ users'[req[r].userId].credits
                = users[req[r].userId].credits - req[r].price
      ELSE numbers' = numbers /\ users' = users
\* C17: every step of a bulk purchase by u at totalPrice t either is the
\* one that answers with success, and then marks every Number of the
\* request sold to u and decreases u's credits by exactly t, or changes no
\* Number and no user.
C17_BulkEffectsAtomic == [][C17_Step]_vars

\* u1 (0.50) bought n1 and n2 in one bulk purchase at 0.40
C17_Witness ==
  /\ \E r \in Requests :
       /\ Succeeded(r) /\ req[r].kind = "bulk" /\ req[r].userId = "u1"
       /\ req[r].resp.purchasedCount = 2
  /\ \A n \in {"n1", "n2"} :
       numbers[n].status = "sold" /\ numbers[n].soldTo = "u1"
  /\ users["u1"].credits = 1

\* ---- C18
C18_Step ==
  \A r \in Requests :
    (req[r].kind = "buy" /\ Completes(r) /\ req'[r].resp.success) =>
      /\ req'[r].resp.newBalance
           = users[req[r].userId].credits - req[r].amount
      /\ req'[r].resp.newBalance = users'[req[r].userId].credits
\* C18: the newBalance a successful single purchase returns is the user's
\* credits before the purchase's writes minus the price charged, and is the
\* credits stored once they are applied.
C18_NewBalanceIsStoredBalance == [][C18_Step]_vars

\* two single purchases of one user in a plain variant both returned the
\* same newBalance, and the user holds less than that
C18_Witness ==
  /\ Plain
  /\ \E r1, r2 \in Requests :
       /\ r1 # r2
       /\ {r1, r2} \subseteq Purchases(req[r1].userId)
       /\ req[r1].kind = "buy" /\ req[r2].kind = "buy"
       /\ req[r1].resp.newBalance = req[r2].resp.newBalance
       /\ users[req[r1].userId].credits < req[r1].resp.newBalance

\* ---- C19
C19_Step ==
  \A r \in Requests :
    ( /\ req[r].kind \in {"buy", "bulk"}
      /\ Completes(r) /\ req'[r].resp.success ) =>
      LET u == req[r].userId
          phones == IF req[r].kind = "buy"
                    THEN <<req[r].numberData.phoneNumber>>
                    ELSE [i \in 1..Len(req[r].refs) |->
                            req[r].refs[i].phoneNumber]
          k == Len(phones) IN
      /\ users'[u].purchasedNumbers = users[u].purchasedNumbers \o phones
      /\ Len(users'[u].purchasedNumbersData)
           = Len(users[u].purchasedNumbersData) + k
\* C19: a successful purchase of k Numbers appends their k phoneNumbers to
\* the user's purchasedNumbers, in the order of the request, and k
\* snapshots to purchasedNumbersData; both lists grow by k.
C19_ListsGrowByK == [][C19_Step]_vars

\* a user holds two snapshots of one phoneNumber, which is once in
\* purchasedNumbers
C19_Witness ==
  \E u \in Users :
    /\ Len(users[u].purchasedNumbers) = 1
    /\ Len(users[u].purchasedNumbersData) = 2
    /\ \A i \in 1..2 :
         users[u].purchasedNumbersData[i].phoneNumber
           = users[u].purchasedNumbers[1]

\* ---- C20
C20_Step ==
  \A r \in Requests :
    (req'[r] # req[r] /\ req'[r].kind = "delete") =>
      /\ numbers' = numbers
      /\ transactions' = transactions
      /\ \A u \in UserIds :
           /\ users'[u].credits = users[u].credits
           /\ users'[u].exists = users[u].exists
           /\ users'[u].role = users[u].role
           /\ u # req'[r].userId => users'[u] = users[u]
\* C20: every step of a delete-numbers request leaves every Number, the
\* Transaction log, every user's credits and every other user unchanged: it
\* changes the purchasedNumbers and purchasedNumbersData of its user only.
C20_DeleteChangesListsOnly == [][C20_Step]_vars

\* a user bought a Number and deleted it from the lists: the lists are
\* empty, the Number is still sold to the user, the credits stay spent
C20_Witness ==
  \E r1, r2 \in Requests, n \in NumberIds :
    /\ Succeeded(r1) /\ req[r1].kind = "buy" /\ req[r1].numberId = n
    /\ Succeeded(r2) /\ req[r2].kind = "delete"
    /\ req[r2].userId = req[r1].userId
    /\ numbers[n].status = "sold" /\ numbers[n].soldTo = req[r1].userId
    /\ users[req[r1].userId].purchasedNumbers = <<>>
    /\ users[req[r1].userId].purchasedNumbersData = <<>>
    /\ users[req[r1].userId].credits
         = InitialUsers[req[r1].userId].credits - req[r1].amount

\* C21: after any sequence of admin uploads, one list naming a phone number
\* twice and two concurrent uploads included, no two Number documents hold
\* the same phoneNumber.
C21_UniquePhoneNumbers ==
  \A m, n \in DOMAIN numbers :
    (m # n /\ numbers[m].exists /\ numbers[n].exists)
      => numbers[m].phoneNumber # numbers[n].phoneNumber

\* one upload added two documents and the inventory has grown by them
C21_Witness ==
  \E r \in Requests :
    /\ req[r].kind = "upload" /\ Succeeded(r)
    /\ req[r].resp.purchasedCount = 2
    /\ Cardinality({n \in NewNumberIdSet : numbers[n].exists}) >= 2

\* C22: an admin-only operation takes effect or returns data only for a
\* caller whose role is admin; the call of anyone else is rejected, and the
\* rejection changes nothing in the store.
AdminKinds == {"credit", "upload", "numbersDelete", "usersUpdate",
               "usersDelete", "settingsGet"}

C22_Step ==
  \A r \in Requests :
    (/\ req[r].pc = "idle" /\ req'[r].pc = "done"
     /\ req'[r].kind \in AdminKinds
     /\ req'[r].resp.status \in {400, 401, 403})
      => UNCHANGED store

C22_AdminOnly ==
  /\ [](\A r \in Requests :
          (/\ req[r].kind \in AdminKinds
           /\ req[r].pc # "idle"
           /\ ~(req[r].pc = "done" /\ ~req[r].resp.success))
            => IsAdmin(req[r].adminId))
  /\ [][C22_Step]_vars

\* the admin deleted a Number, and a call of someone else was turned away
C22_Witness ==
  \E r, s \in Requests :
    /\ req[r].kind = "numbersDelete" /\ Succeeded(r)
    /\ IsAdmin(req[r].adminId)
    /\ ~numbers["n1"].exists
    /\ req[s].kind \in AdminKinds /\ req[s].pc = "done"
    /\ req[s].resp.status = 403

\* C23: the credits of a user are changed by a purchase or by the admin's
\* add-credit only, and the two purchased lists by a purchase or by
\* delete-numbers only; a signup for an existing uid and the admin's
\* users/update change neither.
C23_Step ==
  \A u \in UserIds :
    (users[u].exists /\ users'[u].exists) =>
      /\ users'[u].credits # users[u].credits
           => \E r \in Requests :
                /\ req'[r] # req[r]
                /\ req'[r].kind \in {"buy", "bulk", "credit"}
      /\ (\/ users'[u].purchasedNumbers # users[u].purchasedNumbers
          \/ users'[u].purchasedNumbersData # users[u].purchasedNumbersData)
           => \E r \in Requests :
                /\ req'[r] # req[r]
                /\ req'[r].kind \in {"buy", "bulk", "delete"}

C23_CreditsAndListsFrame == [][C23_Step]_vars

\* a signup for the uid of a user who held credits was answered with success
C23_Witness ==
  \E r \in Requests :
    /\ req[r].kind = "signup" /\ Succeeded(r)
    /\ req[r].userId = "u1"
    /\ users["u1"].exists

\* C24: the Transaction log is append-only and every Transaction has status
\* completed; deleting Numbers (by id or all sold) and deleting Users leave
\* every Transaction as it was.
C24_Step ==
  /\ Len(transactions') >= Len(transactions)
  /\ SubSeq(transactions', 1, Len(transactions)) = transactions

C24_TransactionsAppendOnly ==
  /\ [](\A i \in 1..Len(transactions) : transactions[i].status = "completed")
  /\ [][C24_Step]_vars

\* a Number was bought and then deleted by the admin; the Transaction of
\* the purchase is still in the log
C24_Witness ==
  \E r \in Requests :
    /\ req[r].kind = "numbersDelete" /\ Succeeded(r)
    /\ \E i \in 1..Len(transactions) :
         /\ transactions[i].type = "single_purchase"
         /\ \E j \in 1..Len(transactions[i].numbersData) :
              ~numbers[transactions[i].numbersData[j].originalId].exists

\* C25: a successful delete-sold removes every Number that was sold when
\* the call started, however many there were, and deletes no available
\* Number.
C25_Step ==
  \A r \in Requests :
    LET snapshot == { req'[r].items[i] : i \in 1..Len(req'[r].items) }
        deleted == { req[r].items[i] : i \in 1..Len(req[r].items) } IN
    /\ (/\ req[r].pc = "idle" /\ req'[r].pc = "soldCommit")
         => \A n \in DOMAIN numbers :
              (numbers[n].exists /\ numbers[n].status = "sold")
                => n \in snapshot
    /\ (/\ req[r].pc = "soldCommit" /\ req'[r].pc = "done"
        /\ req'[r].resp.success)
         => /\ \A n \in deleted : ~numbers'[n].exists
            /\ \A n \in DOMAIN numbers :
                 (numbers[n].exists /\ ~numbers'[n].exists)
                   => (n \in deleted /\ numbers[n].status = "sold")

C25_DeleteSoldRemovesAllSold == [][C25_Step]_vars

\* a delete-sold has answered with success and deleted SoldQueryLimit
\* Numbers, and every available Number is still there
C25_Witness ==
  \E r \in Requests :
    /\ req[r].kind = "deleteSold" /\ Succeeded(r)
    /\ req[r].resp.purchasedCount = SoldQueryLimit
    /\ \A n \in NumberIds :
         InitialNumbers[n].exists => numbers[n].exists

\* C26: every submitted purchase eventually completes, under any contention
\* between requests, and it completes with exactly one response, which is
\* never replaced afterwards.
C26_Step ==
  \A r \in Requests : req[r].pc = "done" => req'[r] = req[r]

C26_EveryPurchaseCompletes ==
  /\ \A r \in Requests :
       (req[r].pc # "idle") ~> (req[r].pc = "done" /\ req[r].resp.status # 0)
  /\ [][C26_Step]_vars

\* two purchases of the same Number by the same user ran into each other:
\* the loser ran its transaction a second time and both were answered
C26_Witness ==
  \E r, s \in Requests :
    /\ r # s
    /\ Succeeded(r) /\ req[r].kind = "buy"
    /\ req[s].pc = "done" /\ req[s].kind = "buy" /\ req[s].attempt > 0
    /\ ~req[s].resp.success

\* C27: a purchase that fails because the Number is missing or unavailable,
\* the user is missing or the credits do not suffice is answered with a
\* failure of its own class, never the class (status 500) of an unexpected
\* or store error, and the four failures differ from one another.
TypedFailures ==
  {"Number not found", "Number is not available", "User not found",
   "Insufficient credits"}

C27_TypedFailures ==
  \A r \in Requests :
    (/\ req[r].pc = "done" /\ req[r].kind \in {"buy", "bulk"}
     /\ req[r].resp.message \in TypedFailures)
      => /\ ~req[r].resp.success
         /\ req[r].resp.status # 500
         /\ \A s \in Requests :
              (/\ req[s].pc = "done" /\ ~req[s].resp.success
               /\ req[s].resp.message # req[r].resp.message)
                => req[s].resp # req[r].resp

\* one purchase was refused for insufficient credits and another failed on
\* a store error
C27_Witness ==
  \E r, s \in Requests :
    /\ req[r].pc = "done" /\ req[r].resp.message = "Insufficient credits"
    /\ req[s].pc = "done"
    /\ req[s].resp.message \in {"UNAVAILABLE", "Database error: UNAVAILABLE"}

\* C28: when a user's delete of number X runs concurrently with the same
\* user's successful purchase of number Y, Y is in the user's
\* purchasedNumbers and purchasedNumbersData after both: the write of a
\* delete removes nothing but the numbers the request named.
C28_Step ==
  \A d \in Requests :
    (req[d].pc = "delUpd" /\ req'[d].pc = "done") =>
      LET u == req[d].userId
          named(p) == \E i \in 1..Len(req[d].items) : req[d].items[i] = p
      IN
      /\ \A i \in 1..Len(users[u].purchasedNumbers) :
           ~named(users[u].purchasedNumbers[i])
             => \E j \in 1..Len(users'[u].purchasedNumbers) :
                  users'[u].purchasedNumbers[j] = users[u].purchasedNumbers[i]
      /\ \A i \in 1..Len(users[u].purchasedNumbersData) :
           ~named(users[u].purchasedNumbersData[i].phoneNumber)
             => \E j \in 1..Len(users'[u].purchasedNumbersData) :
                  users'[u].purchasedNumbersData[j] =
                    users[u].purchasedNumbersData[i]

C28_DeleteKeepsOtherNumbers == [][C28_Step]_vars

\* a delete of p1 and a successful purchase of n2 (p2) by the same user
\* have both completed
C28_Witness ==
  \E d, b \in Requests :
    /\ req[d].kind = "delete" /\ Succeeded(d)
    /\ req[b].kind = "buy" /\ Succeeded(b)
    /\ req[b].userId = req[d].userId /\ req[b].numberId = "n2"
    /\ numbers["n2"].soldTo = req[b].userId
    /\ \A i \in 1..Len(users[req[b].userId].purchasedNumbers) :
         users[req[b].userId].purchasedNumbers[i] # "p2"

\* C29: every snapshot in a user's purchasedNumbersData carries the
\* phoneNumber of the stored Number whose id is the snapshot's originalId,
\* and that Number exists.
C29_SnapshotsMatchNumbers ==
  \A u \in UserIds :
    \A i \in 1..Len(users[u].purchasedNumbersData) :
      LET snap == users[u].purchasedNumbersData[i] IN
      /\ numbers[snap.originalId].exists
      /\ numbers[snap.originalId].phoneNumber = snap.phoneNumber

\* a bulk purchase of two Numbers has succeeded and its two snapshots are
\* in the buyer's list
C29_Witness ==
  \E r \in Requests :
    /\ req[r].kind = "bulk" /\ Succeeded(r)
    /\ Len(users[req[r].userId].purchasedNumbersData) = 2
    /\ numbers["n1"].status = "sold" /\ numbers["n2"].status = "sold"

\* C30: a successful purchase never increases the buyer's credits, whatever
\* price the request supplies, a negative one included.
C30_Step ==
  \A r \in Requests :
    (/\ Completes(r) /\ req'[r].resp.success
     /\ req'[r].kind \in {"buy", "bulk"})
      => users'[req'[r].userId].credits <= users[req'[r].userId].credits

C30_PurchaseNeverAddsCredits == [][C30_Step]_vars

\* a purchase at a price below zero has succeeded and the buyer holds more
\* credits than before any request
C30_Witness ==
  \E r \in Requests :
    /\ req[r].kind = "buy" /\ Succeeded(r)
    /\ req[r].amount < 0
    /\ users[req[r].userId].credits > InitialUsers[req[r].userId].credits

\* C31: the purchasedCount of a successful bulk purchase is the number of
\* distinct Numbers whose status went from available to sold in that
\* purchase, also when the request lists a Number that was sold already.
C31_Step ==
  \A r \in Requests :
    (/\ Completes(r) /\ req'[r].kind = "bulk" /\ req'[r].resp.success)
      => req'[r].resp.purchasedCount =
           Cardinality({ n \in NumberIds :
                           /\ numbers[n].status = "available"
                           /\ numbers'[n].status = "sold" })

C31_PurchasedCountIsNumbersSold == [][C31_Step]_vars

\* a bulk purchase answered purchasedCount 2 and both Numbers are sold to
\* its user
C31_Witness ==
  \E r \in Requests :
    /\ req[r].kind = "bulk" /\ Succeeded(r)
    /\ req[r].resp.purchasedCount = 2
    /\ numbers["n1"].soldTo = req[r].userId
    /\ numbers["n2"].soldTo = req[r].userId

\* C32: runTransaction variant, users created with credits 0: whenever no
\* request is in flight, a user's credits are the sum of the amounts of the
\* user's credit_added Transactions minus the sum of the amounts of the
\* user's single_purchase and bulk_purchase Transactions.
RECURSIVE LedgerBalance(_, _)
LedgerBalance(u, k) ==
  IF k = 0 THEN 0
  ELSE LedgerBalance(u, k - 1)
       + (IF transactions[k].userId # u THEN 0
          ELSE IF transactions[k].type = "credit_added"
            THEN transactions[k].amount
          ELSE 0 - transactions[k].amount)

C32_LedgerConservation ==
  Quiescent =>
    \A u \in Users : users[u].credits = LedgerBalance(u, Len(transactions))

\* an add-credit and a purchase of one user have both succeeded and both
\* are in the log behind the two earlier top-ups
C32_Witness ==
  /\ Quiescent
  /\ \E u \in Users :
       /\ Cardinality(CreditsAdded(u)) = 1
       /\ Cardinality(Purchases(u)) = 1
       /\ Len(transactions) = 4
       /\ users[u].credits = LedgerBalance(u, Len(transactions))

\* C33: token-verified variant: a buy, bulk-buy or delete-numbers request
\* without a valid token, or whose userId is not the uid of its token, is
\* answered 401 or 403 (400 if its body is incomplete) before any store
\* call: only a request whose token names its userId gets further, and the
\* rejection changes no user and no Number.
TokenRejected(r) ==
  /\ req[r].pc = "done"
  /\ req[r].resp.status \in {400, 401, 403}
  /\ req[r].resp.message \in {"No token provided", "Unauthorized",
                              "Missing required fields", "Invalid request"}

C33_Step ==
  \A r \in Requests :
    (req[r].pc = "idle" /\ req'[r].pc = "done"
       /\ req'[r].resp.status \in {401, 403})
      => UNCHANGED store

RECURSIVE KeptPhones(_, _)
KeptPhones(list, S) ==
  IF list = <<>> THEN <<>>
  ELSE IF Head(list) \in S THEN KeptPhones(Tail(list), S)
  ELSE <<Head(list)>> \o KeptPhones(Tail(list), S)

RECURSIVE KeptSnapshots(_, _)
KeptSnapshots(list, S) ==
  IF list = <<>> THEN <<>>
  ELSE IF Head(list).phoneNumber \in S THEN KeptSnapshots(Tail(list), S)
  ELSE <<Head(list)>> \o KeptSnapshots(Tail(list), S)

NamedPhones(list) == { list[i] : i \in 1..Len(list) }
SnapshotPhones(list) == { list[i].phoneNumber : i \in 1..Len(list) }

C34_Step ==
  \A d \in Requests :
    LET u == req'[d].userId
        S == NamedPhones(req'[d].items) IN
    \* the read and the filter
    /\ (req[d].pc = "idle" /\ req'[d].pc = "delUpd") =>
         /\ req'[d].userData.purchasedNumbers =
              KeptPhones(users[u].purchasedNumbers, S)
         /\ req'[d].userData.purchasedNumbersData =
              KeptSnapshots(users[u].purchasedNumbersData, S)
         /\ NamedPhones(users[u].purchasedNumbers)
              = SnapshotPhones(users[u].purchasedNumbersData)
            => NamedPhones(req'[d].userData.purchasedNumbers)
                 = SnapshotPhones(req'[d].userData.purchasedNumbersData)
    \* the write and the answer
    /\ (req[d].pc = "delUpd" /\ req'[d].pc = "done"
          /\ req'[d].resp.success) =>
         /\ users'[u].purchasedNumbers = req[d].userData.purchasedNumbers
         /\ users'[u].purchasedNumbersData =
              req[d].userData.purchasedNumbersData
         /\ NamedPhones(users'[u].purchasedNumbers)
              \cap NamedPhones(req[d].items) = {}
         /\ SnapshotPhones(users'[u].purchasedNumbersData)
              \cap NamedPhones(req[d].items) = {}

C34_DeleteLeavesTheOtherEntries == [][C34_Step]_vars

\* u1 deleted p1 from the three numbers it owned: p3 and p4 are left, in
\* this order, in both lists
C34_Witness ==
  \E d \in Requests :
    /\ req[d].kind = "delete" /\ Succeeded(d) /\ req[d].userId = "u1"
    /\ users["u1"].purchasedNumbers = <<"p3", "p4">>
    /\ Len(users["u1"].purchasedNumbersData) = 2
    /\ users["u1"].purchasedNumbersData[1].phoneNumber = "p3"
    /\ users["u1"].purchasedNumbersData[2].phoneNumber = "p4"
====
